---- MODULE Spec2Model ----
(***************************************************************************)
(* A model of Pattern-Strategy-TextFormatter.cpp: the three formatting     *)
(* strategies (UpperCaseFormatter, LowerCaseFormatter, TitleCaseFormatter),*)
(* the context class TextProcessor, and main().                            *)
(*                                                                         *)
(* A text is a sequence of bytes.  The strategies hand each `char` to the  *)
(* <cctype> functions toupper, tolower and isspace without a cast to       *)
(* unsigned char.  The program never calls setlocale, so the "C" locale is *)
(* in force: for the bytes 0..127 those functions are the ASCII ones.  A   *)
(* byte above 127 is a negative `char` where char is signed, and a         *)
(* negative argument other than EOF is undefined behaviour for all three.  *)
(* What happens then depends on the C library the program is built         *)
(* against; the variable libc holds that choice, made once per run.        *)
(***************************************************************************)
EXTENDS Integers, Sequences, FiniteSets

\* ---------------------------------------------------------------- bounds

\* Longest text drawn as an input of main() and of the strategy harness.
MaxLen == 3
\* Longest text drawn as the caller's text in the processor harness.
MaxProcLen == 2
\* Largest selector drawn; selectors range over -1..MaxChoice.
MaxChoice == 4
\* Most setFormatter calls in one run of the processor harness.
MaxSets == 2
\* Most format calls between two setFormatter calls in the processor harness,
\* and most successive applications of one strategy in the strategy harness.
MaxCalls == 2

\* ------------------------------------------------------------- the values

\* The bytes texts are drawn from: tab, space, '1', 'A', 'a' and 0xE9 (a
\* Latin-1 letter, or one byte of a UTF-8 one; a negative char when char is
\* signed).
Alphabet == {9, 32, 49, 65, 97, 233}

RECURSIVE TextsOfLen(_)
TextsOfLen(n) ==
    IF n = 0 THEN {<<>>}
    ELSE {Append(t, c) : t \in TextsOfLen(n - 1), c \in Alphabet}

\* Every std::string over Alphabet of length at most MaxLen.
Texts == UNION {TextsOfLen(n) : n \in 0..MaxLen}

\* The texts the processor harness draws from.
ProcTexts == UNION {TextsOfLen(n) : n \in 0..MaxProcLen}

\* The values `choice` can hold at the switch.
Selectors == -1..MaxChoice

\* unique_ptr<ITextFormatter> holding nullptr.
Null == "null"

\* The concrete strategy classes.
Formatters == {"UPPER", "LOWER", "TITLE"}

\* What the build's <cctype> functions do with an argument outside 0..255
\* and EOF, the same on every call of a run:
\*   space  isspace: "no" (it range-checks, or the table entry it reads
\*          carries no space flag), "yes" (the entry it reads before its table
\*          carries the flag) or "abort" (a debug runtime's range assertion
\*          fails and stops the process);
\*   conv   toupper and tolower: "same" (the argument is returned as it is) or
\*          "junk" (the table is indexed with the negative value and the byte
\*          `junk` lying before it is returned).
Libcs ==
    {[space |-> sp, conv |-> "same", junk |-> 0] : sp \in {"no", "yes", "abort"}}
    \cup {[space |-> sp, conv |-> "junk", junk |-> j] :
             sp \in {"no", "yes", "abort"}, j \in Alphabet \ {233}}

VARIABLES
    pc,         \* where main() is, or the harness's phase
    libc,       \* the C library of the build (see Libcs)
    input,      \* main's `input`; in the harnesses, the caller's text
    choice,     \* main's `choice`
    formatter,  \* TextProcessor::formatter
    hist,       \* history: the arguments of the setFormatter calls so far
    out,        \* what has been written to cout, in order
    exitCode,   \* main's return value, -1 while it has not returned
    strategy,   \* strategy harness: the concrete formatter under test
    results     \* harnesses: the texts the format calls returned, in order

vars == <<pc, libc, input, choice, formatter, hist, out, exitCode, strategy,
          results>>

\* ------------------------------------------------------------- <cctype>

\* The argument is a negative char (char signed) and not EOF.
OutOfRange(c) == c > 127

\* isspace(c) stops the process instead of returning.
isspace_aborts(c, l) == OutOfRange(c) /\ l.space = "abort"

\* isspace(c) in the "C" locale: space, \t, \n, \v, \f, \r.
isspace(c, l) ==
    IF OutOfRange(c)
    THEN l.space = "yes"
    ELSE c \in ({32} \cup (9..13))

\* toupper(c) in the "C" locale, narrowed back to char by the assignment.
toupper(c, l) ==
    IF OutOfRange(c)
    THEN (IF l.conv = "junk" THEN l.junk ELSE c)
    ELSE IF c \in 97..122 THEN c - 32 ELSE c

\* tolower(c) in the "C" locale, narrowed back to char by the assignment.
tolower(c, l) ==
    IF OutOfRange(c)
    THEN (IF l.conv = "junk" THEN l.junk ELSE c)
    ELSE IF c \in 65..90 THEN c + 32 ELSE c

\* ------------------------------------------------------- the strategies
\* Each format returns [ok, text]: ok is FALSE when the call stopped the
\* process instead of returning; text is then what `result` held.

\* for (char& c : result) c = toupper(c);  from position i on.
RECURSIVE UpperLoop(_, _, _)
UpperLoop(result, i, l) ==
    IF i > Len(result) THEN result
    ELSE UpperLoop([result EXCEPT ![i] = toupper(result[i], l)], i + 1, l)

\* for (char& c : result) c = tolower(c);  from position i on.
RECURSIVE LowerLoop(_, _, _)
LowerLoop(result, i, l) ==
    IF i > Len(result) THEN result
    ELSE LowerLoop([result EXCEPT ![i] = tolower(result[i], l)], i + 1, l)

\* Mutant: the uppercase strategy runs the lowercase loop.
UpperCaseFormatter_format_Pasted(text, l) ==
    [ok |-> TRUE, text |-> LowerLoop(text, 1, l)]

UpperCaseFormatter_format(text, l) ==
    [ok |-> TRUE, text |-> UpperLoop(text, 1, l)]

LowerCaseFormatter_format(text, l) ==
    [ok |-> TRUE, text |-> LowerLoop(text, 1, l)]

\* The loop of TitleCaseFormatter::format from position i on, with the flag
\* `capitalize`.
RECURSIVE TitleLoop(_, _, _, _)
TitleLoop(result, i, capitalize, l) ==
    IF i > Len(result) THEN [ok |-> TRUE, text |-> result]
    ELSE IF isspace_aborts(result[i], l) THEN [ok |-> FALSE, text |-> result]
    ELSE IF isspace(result[i], l) THEN TitleLoop(result, i + 1, TRUE, l)
    ELSE IF capitalize
         THEN TitleLoop([result EXCEPT ![i] = toupper(result[i], l)],
                        i + 1, FALSE, l)
         ELSE TitleLoop([result EXCEPT ![i] = tolower(result[i], l)],
                        i + 1, FALSE, l)

TitleCaseFormatter_format(text, l) == TitleLoop(text, 1, TRUE, l)

\* The virtual call formatter->format(text).
ITextFormatter_format(f, text, l) ==
    CASE f = "UPPER" -> UpperCaseFormatter_format(text, l)
      [] f = "LOWER" -> LowerCaseFormatter_format(text, l)
      [] f = "TITLE" -> TitleCaseFormatter_format(text, l)

\* ------------------------------------------------------- TextProcessor

\* TextProcessor() : formatter(nullptr)
TextProcessor_ctor == Null

\* Mutant: setFormatter fills only an empty slot.
TextProcessor_setFormatter_KeepsFirst(slot, f) == IF slot = Null THEN f ELSE slot

\* setFormatter(f): formatter = move(f); the new value of the slot.
TextProcessor_setFormatter(slot, f) == f

\* Mutant: with no strategy set, format returns an empty text.
TextProcessor_format_NoFallback(slot, text, l) ==
    IF slot # Null THEN ITextFormatter_format(slot, text, l)
    ELSE [ok |-> TRUE, text |-> <<>>]

\* format(text)
TextProcessor_format(slot, text, l) ==
    IF slot # Null THEN ITextFormatter_format(slot, text, l)
    ELSE [ok |-> TRUE, text |-> text]

\* ---------------------------------------------------------------- main()

\* One write to cout.
Line(kind, text) == [kind |-> kind, text |-> text]

\* After `TextProcessor processor; string input;`.  `choice` is declared
\* later and holds nothing before ReadChoice; 0 stands for that.
Init ==
    /\ pc = "getline"
    /\ libc \in Libcs
    /\ input = <<>>
    /\ choice = 0
    /\ formatter = TextProcessor_ctor
    /\ hist = <<>>
    /\ out = <<>>
    /\ exitCode = -1
    /\ strategy = Null
    /\ results = <<>>

\* cout << "Enter a sentence: "; getline(cin, input);
\* getline drops the newline; at end of input it leaves `input` empty.
GetLine ==
    /\ pc = "getline"
    /\ \E line \in Texts : input' = line
    /\ out' = Append(out, Line("prompt", <<>>))
    /\ pc' = "readchoice"
    /\ UNCHANGED <<libc, choice, formatter, hist, exitCode, strategy, results>>

\* The menu, then `int choice; cin >> choice;`.  An integer token is stored;
\* a token that is no integer stores 0; when the stream has already failed
\* nothing is stored and the switch reads an indeterminate value.  In each
\* case `choice` ends as some integer.
ReadChoice ==
    /\ pc = "readchoice"
    /\ \E c \in Selectors : choice' = c
    /\ out' = Append(out, Line("menu", <<>>))
    /\ pc' = "switch"
    /\ UNCHANGED <<libc, input, formatter, hist, exitCode, strategy, results>>

\* case 1: processor.setFormatter(make_unique<UpperCaseFormatter>());
Case1 ==
    /\ pc = "switch"
    /\ choice = 1
    /\ formatter' = TextProcessor_setFormatter(formatter, "UPPER")
    /\ hist' = Append(hist, "UPPER")
    /\ pc' = "header"
    /\ UNCHANGED <<libc, input, choice, out, exitCode, strategy, results>>

\* Mutant: case 2 installs the uppercase strategy.
Case2_Pasted ==
    /\ pc = "switch"
    /\ choice = 2
    /\ formatter' = TextProcessor_setFormatter(formatter, "UPPER")
    /\ hist' = Append(hist, "UPPER")
    /\ pc' = "header"
    /\ UNCHANGED <<libc, input, choice, out, exitCode, strategy, results>>

\* case 2: processor.setFormatter(make_unique<LowerCaseFormatter>());
Case2 ==
    /\ pc = "switch"
    /\ choice = 2
    /\ formatter' = TextProcessor_setFormatter(formatter, "LOWER")
    /\ hist' = Append(hist, "LOWER")
    /\ pc' = "header"
    /\ UNCHANGED <<libc, input, choice, out, exitCode, strategy, results>>

\* case 3: processor.setFormatter(make_unique<TitleCaseFormatter>());
Case3 ==
    /\ pc = "switch"
    /\ choice = 3
    /\ formatter' = TextProcessor_setFormatter(formatter, "TITLE")
    /\ hist' = Append(hist, "TITLE")
    /\ pc' = "header"
    /\ UNCHANGED <<libc, input, choice, out, exitCode, strategy, results>>

\* Mutant: the default branch prints nothing.
Default_Silent ==
    /\ pc = "switch"
    /\ choice \notin {1, 2, 3}
    /\ pc' = "header"
    /\ UNCHANGED <<libc, input, choice, formatter, hist, out, exitCode,
                   strategy, results>>

\* Mutant: the default branch also calls processor.setFormatter(nullptr).
Default_Resets ==
    /\ pc = "switch"
    /\ choice \notin {1, 2, 3}
    /\ formatter' = TextProcessor_setFormatter(formatter, Null)
    /\ hist' = Append(hist, Null)
    /\ out' = Append(out, Line("invalid", <<>>))
    /\ pc' = "header"
    /\ UNCHANGED <<libc, input, choice, exitCode, strategy, results>>

\* default: cout << "Invalid choice. Using default (no formatting).\n";
Default ==
    /\ pc = "switch"
    /\ choice \notin {1, 2, 3}
    /\ out' = Append(out, Line("invalid", <<>>))
    /\ pc' = "header"
    /\ UNCHANGED <<libc, input, choice, formatter, hist, exitCode, strategy,
                   results>>

\* cout << "\nFormatted output:\n";
PrintHeader ==
    /\ pc = "header"
    /\ out' = Append(out, Line("header", <<>>))
    /\ pc' = "format"
    /\ UNCHANGED <<libc, input, choice, formatter, hist, exitCode, strategy,
                   results>>

\* cout << processor.format(input) << "\n";  when the call returns.
PrintResult ==
    /\ pc = "format"
    /\ LET r == TextProcessor_format(formatter, input, libc) IN
        /\ r.ok
        /\ out' = Append(out, Line("result", r.text))
    /\ pc' = "return"
    /\ UNCHANGED <<libc, input, choice, formatter, hist, exitCode, strategy,
                   results>>

\* processor.format(input) stops the process: nothing more is printed and
\* main never returns.
FormatAborts ==
    /\ pc = "format"
    /\ ~TextProcessor_format(formatter, input, libc).ok
    /\ pc' = "aborted"
    /\ UNCHANGED <<libc, input, choice, formatter, hist, out, exitCode,
                   strategy, results>>

\* return 0;
Return ==
    /\ pc = "return"
    /\ exitCode' = 0
    /\ pc' = "done"
    /\ UNCHANGED <<libc, input, choice, formatter, hist, out, strategy,
                   results>>

Next ==
    \/ GetLine
    \/ ReadChoice
    \/ Case1
    \/ Case2
    \/ Case3
    \/ Default
    \/ PrintHeader
    \/ PrintResult
    \/ FormatAborts
    \/ Return

Spec == Init /\ [][Next]_vars

\* --------------------------------------------------- processor harness
\* A caller that owns one TextProcessor and one text, and calls setFormatter
\* and format(text) in any order.

ProcInit ==
    /\ pc = "proc"
    /\ libc \in Libcs
    /\ input \in ProcTexts
    /\ choice = 0
    /\ formatter = TextProcessor_ctor
    /\ hist = <<>>
    /\ out = <<>>
    /\ exitCode = -1
    /\ strategy = Null
    /\ results = <<>>

\* processor.setFormatter(f), f a new strategy object or nullptr.  results
\* restarts: it lists the format calls since the last setFormatter.
SetFormatter ==
    /\ pc = "proc"
    /\ Len(hist) < MaxSets
    /\ \E f \in Formatters \cup {Null} :
        /\ formatter' = TextProcessor_setFormatter(formatter, f)
        /\ hist' = Append(hist, f)
    /\ results' = <<>>
    /\ UNCHANGED <<pc, libc, input, choice, out, exitCode, strategy>>

\* Mutant: format gives its strategy away (move(formatter)->format(text)).
Format_MovesSlot ==
    /\ pc = "proc"
    /\ Len(results) < MaxCalls
    /\ LET r == TextProcessor_format(formatter, input, libc) IN
        /\ pc' = IF r.ok THEN pc ELSE "aborted"
        /\ results' = IF r.ok THEN Append(results, r.text) ELSE results
    /\ formatter' = Null
    /\ UNCHANGED <<libc, input, choice, hist, out, exitCode, strategy>>

\* processor.format(input): `text` is a const reference and format reads the
\* slot without assigning it.
Format ==
    /\ pc = "proc"
    /\ Len(results) < MaxCalls
    /\ LET r == TextProcessor_format(formatter, input, libc) IN
        /\ pc' = IF r.ok THEN pc ELSE "aborted"
        /\ results' = IF r.ok THEN Append(results, r.text) ELSE results
    /\ UNCHANGED <<libc, input, choice, formatter, hist, out, exitCode,
                   strategy>>

ProcNext ==
    \/ SetFormatter
    \/ Format

SpecProc == ProcInit /\ [][ProcNext]_vars

\* ---------------------------------------------------- strategy harness
\* One strategy object applied to a text, then to its own result, and so on.

FnInit ==
    /\ pc = "fn"
    /\ libc \in Libcs
    /\ input \in Texts
    /\ choice = 0
    /\ formatter = Null
    /\ hist = <<>>
    /\ out = <<>>
    /\ exitCode = -1
    /\ strategy = Null
    /\ results = <<>>

\* The argument of the next application.
FnArg == IF results = <<>> THEN input ELSE results[Len(results)]

\* UpperCaseFormatter().format(FnArg)
CallUpper ==
    /\ pc = "fn"
    /\ Len(results) < MaxCalls
    /\ strategy \in {Null, "UPPER"}
    /\ strategy' = "UPPER"
    /\ LET r == UpperCaseFormatter_format(FnArg, libc) IN
        /\ pc' = IF r.ok THEN pc ELSE "aborted"
        /\ results' = IF r.ok THEN Append(results, r.text) ELSE results
    /\ UNCHANGED <<libc, input, choice, formatter, hist, out, exitCode>>

\* LowerCaseFormatter().format(FnArg)
CallLower ==
    /\ pc = "fn"
    /\ Len(results) < MaxCalls
    /\ strategy \in {Null, "LOWER"}
    /\ strategy' = "LOWER"
    /\ LET r == LowerCaseFormatter_format(FnArg, libc) IN
        /\ pc' = IF r.ok THEN pc ELSE "aborted"
        /\ results' = IF r.ok THEN Append(results, r.text) ELSE results
    /\ UNCHANGED <<libc, input, choice, formatter, hist, out, exitCode>>

\* TitleCaseFormatter().format(FnArg)
CallTitle ==
    /\ pc = "fn"
    /\ Len(results) < MaxCalls
    /\ strategy \in {Null, "TITLE"}
    /\ strategy' = "TITLE"
    /\ LET r == TitleCaseFormatter_format(FnArg, libc) IN
        /\ pc' = IF r.ok THEN pc ELSE "aborted"
        /\ results' = IF r.ok THEN Append(results, r.text) ELSE results
    /\ UNCHANGED <<libc, input, choice, formatter, hist, out, exitCode>>

FnNext ==
    \/ CallUpper
    \/ CallLower
    \/ CallTitle

SpecFn == FnInit /\ [][FnNext]_vars

\* ------------------------------------------------------------ the claims

\* Character classes and case maps of the ASCII letters, as the claims use
\* them.
IsSpaceChar(c) == c \in {9, 10, 11, 12, 13, 32}
IsLowerLetter(c) == c \in 97..122
IsUpperLetter(c) == c \in 65..90
IsLetter(c) == IsLowerLetter(c) \/ IsUpperLetter(c)
UpperOf(c) == IF IsLowerLetter(c) THEN c - 32 ELSE c
LowerOf(c) == IF IsUpperLetter(c) THEN c + 32 ELSE c
IsAscii(s) == \A i \in 1..Len(s) : s[i] \in 0..127

\* How many lines of the given kind have been written to cout.
Count(kind) == Cardinality({i \in 1..Len(out) : out[i].kind = kind})

\* main() has left the switch.
PastSwitch == pc \in {"header", "format", "return", "done", "aborted"}

\* main() has printed the result.
Printed == pc \in {"return", "done"}

\* The argument of the most recent setFormatter call, Null before the first.
LastSet == IF hist = <<>> THEN Null ELSE hist[Len(hist)]

\* C1 (processor harness): while the processor's slot is empty, every format
\* call on the caller's text returns that text, character for character, and
\* no call fails.
C1_IdentityFallback ==
    formatter = Null =>
        /\ pc # "aborted"
        /\ \A i \in 1..Len(results) : results[i] = input

\* C1's case: two format calls with an empty slot have returned, on a text
\* holding a byte above 127 in a build whose isspace would stop the process.
C1_Witness ==
    /\ formatter = Null
    /\ Len(results) = 2
    /\ \E i \in 1..Len(input) : input[i] = 233
    /\ libc.space = "abort"

\* C2 (processor harness): the slot starts empty and always holds exactly the
\* argument of the most recent setFormatter call, one of the three strategies
\* or nullptr; every format call since that setFormatter returned what that
\* strategy returns on the text, or the text itself when the slot is empty,
\* whatever was set before.
C2_SlotIsLastSet ==
    /\ formatter = LastSet
    /\ formatter \in Formatters \cup {Null}
    /\ \A i \in 1..Len(results) :
        results[i] = CASE LastSet = Null -> input
                       [] LastSet = "UPPER" ->
                            UpperCaseFormatter_format(input, libc).text
                       [] LastSet = "LOWER" ->
                            LowerCaseFormatter_format(input, libc).text
                       [] LastSet = "TITLE" ->
                            TitleCaseFormatter_format(input, libc).text

\* C2's case: UPPER was set, then TITLE, and format returned TITLE's result on
\* a text on which UPPER's differs.
C2_Witness ==
    /\ hist = <<"UPPER", "TITLE">>
    /\ input = <<97, 97>>
    /\ results = <<<<65, 97>>>>

\* C3 (main): once the result is printed, the line after "Formatted output:"
\* is the uppercase strategy's result on the input when the selector is 1, the
\* lowercase strategy's when 2, the title-case strategy's when 3, and the
\* input itself for every other selector, the slot then being empty.
C3_SelectorMapping ==
    Printed =>
        /\ Len(out) >= 2
        /\ out[Len(out) - 1].kind = "header"
        /\ out[Len(out)].kind = "result"
        /\ out[Len(out)].text =
             CASE choice = 1 -> UpperCaseFormatter_format(input, libc).text
               [] choice = 2 -> LowerCaseFormatter_format(input, libc).text
               [] choice = 3 -> TitleCaseFormatter_format(input, libc).text
               [] OTHER -> input
        /\ choice \notin {1, 2, 3} => formatter = Null

\* C3's case: selector 2 on "Aa1" has printed "aa1".
C3_Witness ==
    /\ pc = "done"
    /\ choice = 2
    /\ input = <<65, 97, 49>>
    /\ out[Len(out)] = Line("result", <<97, 97, 49>>)

\* C4 (main): the notice "Invalid choice. ..." is on cout exactly when the
\* switch has run with a selector outside {1,2,3}, and then exactly once; such
\* a run installs no strategy, never stops in format, and once it has printed
\* the result, the notice precedes the header, the header precedes the result,
\* and the result is the input unchanged.
C4_InvalidNotice ==
    /\ Count("invalid") = IF PastSwitch /\ choice \notin {1, 2, 3} THEN 1 ELSE 0
    /\ (PastSwitch /\ choice \notin {1, 2, 3}) =>
        /\ formatter = Null
        /\ hist = <<>>
        /\ pc # "aborted"
        /\ Printed =>
            \E i, j, k \in 1..Len(out) :
                /\ i < j
                /\ j < k
                /\ out[i].kind = "invalid"
                /\ out[j].kind = "header"
                /\ out[k] = Line("result", input)
                /\ k = Len(out)

\* C4's case: selector 4 on a non-empty line, run to the end.
C4_Witness ==
    /\ pc = "done"
    /\ choice = 4
    /\ input = <<97, 32, 233>>
    /\ Count("invalid") = 1

\* C5 (strategy harness), as claimed: TITLE(s) has the length of s, keeps
\* every whitespace character, turns the first letter of each maximal run of
\* non-whitespace characters into its uppercase form and every other
\* character of the run into its lowercase form.
C5_TitleFirstLetter ==
    (strategy = "TITLE" /\ Len(results) >= 1) =>
        LET s == input
            t == results[1]
            InRun(j, i) == \A k \in j..i : ~IsSpaceChar(s[k])
            FirstLetter(i) ==
                /\ IsLetter(s[i])
                /\ \A j \in 1..(i - 1) : InRun(j, i) => ~IsLetter(s[j])
        IN  /\ Len(t) = Len(s)
            /\ \A i \in 1..Len(s) :
                IF IsSpaceChar(s[i]) THEN t[i] = s[i]
                ELSE IF FirstLetter(i) THEN t[i] = UpperOf(s[i])
                ELSE t[i] = LowerOf(s[i])

\* C6 (strategy harness): for an ASCII text s, UPPER(s) has the length of s,
\* holds no lowercase letter, holds the uppercase form of s's letter at each
\* letter position and s's character at every other position; LOWER(s)
\* likewise with no uppercase letter and the lowercase forms.
C6_UpperLower ==
    (IsAscii(input) /\ Len(results) >= 1) =>
        LET s == input
            t == results[1]
        IN  /\ strategy = "UPPER" =>
                /\ Len(t) = Len(s)
                /\ \A i \in 1..Len(s) :
                    /\ ~IsLowerLetter(t[i])
                    /\ IsLetter(s[i]) => t[i] = UpperOf(s[i])
                    /\ ~IsLetter(s[i]) => t[i] = s[i]
            /\ strategy = "LOWER" =>
                /\ Len(t) = Len(s)
                /\ \A i \in 1..Len(s) :
                    /\ ~IsUpperLetter(t[i])
                    /\ IsLetter(s[i]) => t[i] = LowerOf(s[i])
                    /\ ~IsLetter(s[i]) => t[i] = s[i]

\* C6's case: UPPER on "a1A" has returned "A1A".
C6_Witness ==
    /\ strategy = "UPPER"
    /\ input = <<97, 49, 65>>
    /\ Len(results) >= 1
    /\ results[1] = <<65, 49, 65>>

\* C7 (strategy harness), as claimed: a strategy applied to its own result
\* returns that result: T(T(s)) = T(s).
C7_Idempotent == Len(results) >= 2 => results[2] = results[1]

\* C8 (main), as claimed: no run stops abnormally, and a run that ends has
\* printed its result and returns 0.
C8_ExitsNormally ==
    /\ pc # "aborted"
    /\ pc = "done" => (exitCode = 0 /\ out[Len(out)].kind = "result")

\* C9 (main), as claimed: the slot is empty at creation and, when the result
\* is produced, setFormatter has been called exactly once.
C9_SetExactlyOnce ==
    /\ pc = "getline" => formatter = Null
    /\ Printed => Len(hist) = 1

\* C9 (main), amended: the slot is empty and setFormatter uncalled until the
\* switch; after it setFormatter has been called exactly once when the
\* selector is 1, 2 or 3 and not at all otherwise, and the slot holds the last
\* argument.
C9_SetAtMostOnce ==
    /\ ~PastSwitch => (formatter = Null /\ hist = <<>>)
    /\ PastSwitch =>
        /\ Len(hist) = IF choice \in {1, 2, 3} THEN 1 ELSE 0
        /\ formatter = LastSet

\* C9's case: a run with selector 0 has produced its result without any
\* setFormatter call.
C9_Witness ==
    /\ pc = "done"
    /\ choice = 0
    /\ hist = <<>>
    /\ out[Len(out)].kind = "result"

\* C10 (processor harness): a format call leaves the slot and the caller's
\* text as they were, and the format calls made on the text since the last
\* setFormatter have all returned the same text.
C10_FormatFrame ==
    /\ [](\A i \in 1..Len(results) : results[i] = results[1])
    /\ [][((results' # results /\ results' # <<>>) \/ pc' = "aborted")
            => (formatter' = formatter /\ input' = input)]_vars

\* C10's case: two format calls with TITLE set have returned, on a text TITLE
\* changes.
C10_Witness ==
    /\ formatter = "TITLE"
    /\ Len(results) = 2
    /\ input = <<97, 65>>
    /\ results[2] = <<65, 97>>

====
